---- MODULE Spec2Model ----
(***************************************************************************)
(* Model of the audio loopback engine of src-tauri/src/audio.rs: the       *)
(* AudioActor (command handlers), the capture callback that fans captured  *)
(* samples out to the registered ring-buffer producers, and the output     *)
(* callbacks that drain one ring buffer each.                              *)
(*                                                                         *)
(* Samples and gains are finite numbers; they are modelled by naturals and *)
(* f32 multiplication by Mul.  The unit gain 1.0 is the natural 1.         *)
(***************************************************************************)
EXTENDS Naturals, Integers, Sequences, FiniteSets, TLC

VARIABLES
    capture_stream,       \* AudioActor.capture_stream is Some
    capture_sample_rate,  \* AudioActor.capture_sample_rate (NoRate = None)
    producers,            \* AudioActor.producers: Vec<(String, Producer<f32>)>
    output_streams,       \* AudioActor.output_streams: name -> stream (its config)
    volumes,              \* AudioActor.volumes: name -> volume cell
    mutes,                \* AudioActor.mutes: name -> mute cell
    input_volume,         \* AudioActor.input_volume cell
    input_muted,          \* AudioActor.input_muted cell
    cap,                  \* the capture callback invocation in progress
    ocb,                  \* per output stream: the callback invocation in progress
    outbuf,               \* per output stream: the hardware buffer handed to the callback
    cap_obs,              \* observation of the capture callback's current producer loop
    oc_obs,               \* observation of each output callback invocation
    route_req,            \* per route: the last SetMute / SetVolume applied to it
    last,                 \* the command applied by the last step (NoCmd after a callback step)
    actor,                \* the actor thread: its position in the loop and in the handler it runs
    rx,                   \* the command channel: the commands enqueued and not yet received
    tx,                   \* the number of Sender handles of the command channel still alive
    sent,                 \* every command enqueued so far, in the order of enqueueing
    applied,              \* every command the actor has applied so far, in the order of application
    hist                  \* per route: the samples pushed into and popped from its ring so far

engine == <<capture_stream, capture_sample_rate, producers, output_streams,
            volumes, mutes, input_volume, input_muted>>
vars == <<capture_stream, capture_sample_rate, producers, output_streams,
          volumes, mutes, input_volume, input_muted,
          cap, ocb, outbuf, cap_obs, oc_obs, route_req, last,
          actor, rx, tx, sent, applied, hist>>

\* the command channel
channel == <<rx, tx, sent, applied>>
\* the command channel and the actor's position in its loop
loop == <<actor, rx, tx, sent, applied>>
\* what a step that applies a command directly, or a callback's step, leaves alone
aux == <<loop, hist>>

(***************************************************************************)
(* Bounds of the model.                                                    *)
(***************************************************************************)
\* capacity of a transfer ring (RingBuffer::new(16384) in the source, scaled down)
Capacity == 2
\* samples in one captured block (the driver's block size)
BlockLen == 2
\* sample slots in one output callback buffer
Slots == 2
\* cap on the length of the producer registry (the Vec is unbounded)
MaxProducers == 2
\* cap on the number of commands enqueued in one run (the channel is unbounded)
MaxSent == 3
\* a capture block is started only while every route's push history is shorter
MaxHist == 3

Names == {"A", "B"}
Volumes == {1, 2}

(***************************************************************************)
(* Program constants.                                                      *)
(***************************************************************************)
FallbackRate == 48000
HardcodedRate == 44100
HardcodedChannels == 2
DefaultVolume == 1
NoRate == 0

CaptureRates == {44100, 48000}

(***************************************************************************)
(* Output devices as the host enumerates them: the ordered list of         *)
(* supported configuration ranges and the default configuration, each of   *)
(* which the driver may fail to report.                                    *)
(***************************************************************************)
NoConfig == [rate |-> NoRate, channels |-> 0]

Multi ==
    [cfgs_ok |-> TRUE,
     ranges |-> << [min |-> 96000, max |-> 96000, channels |-> 2],
                   [min |-> 44100, max |-> 48000, channels |-> 6],
                   [min |-> 48000, max |-> 48000, channels |-> 2] >>,
     def_ok |-> TRUE, def |-> [rate |-> 48000, channels |-> 2]]
HiRes ==
    [cfgs_ok |-> TRUE,
     ranges |-> << [min |-> 96000, max |-> 96000, channels |-> 2] >>,
     def_ok |-> TRUE, def |-> [rate |-> 96000, channels |-> 2]]
Opaque ==
    [cfgs_ok |-> FALSE,
     ranges |-> << [min |-> 44100, max |-> 48000, channels |-> 6] >>,
     def_ok |-> TRUE, def |-> [rate |-> 96000, channels |-> 2]]
Broken ==
    [cfgs_ok |-> TRUE,
     ranges |-> << [min |-> 96000, max |-> 96000, channels |-> 2] >>,
     def_ok |-> FALSE, def |-> NoConfig]
Devices == {Multi, HiRes, Opaque, Broken}

(***************************************************************************)
(* Pure helpers.                                                           *)
(***************************************************************************)
\* f32 multiplication of a sample by a gain
Mul(s, v) == s * v

\* the gain with the mute cell ignored
EffectiveGainNoMute(mute_ok, m, vol_ok, v) ==
    IF mute_ok THEN IF vol_ok THEN v ELSE DefaultVolume ELSE 0

\* audio.rs:93-97 and 227-231: the gain a callback uses, from the results of
\* locking the mute cell and the volume cell
EffectiveGain(mute_ok, m, vol_ok, v) ==
    IF mute_ok
    THEN IF m THEN 0 ELSE IF vol_ok THEN v ELSE DefaultVolume
    ELSE 0

\* rtrb Producer::is_full
RbIsFull(q) == Len(q) >= Capacity

\* the oldest sample overwritten on a full ring
RbPushOverwrite(q, x) == IF RbIsFull(q) THEN Append(Tail(q), x) ELSE Append(q, x)

\* audio.rs:102-104: push unless the ring is full
RbPush(q, x) == IF RbIsFull(q) THEN q ELSE Append(q, x)

\* audio.rs:234: consumer.pop().unwrap_or(0.0)
RbPopValue(q) == IF q = <<>> THEN 0 ELSE Head(q)

\* the popped sample left in the ring
RbPopRestKeep(q) == q

\* rtrb Consumer::pop: the ring after a pop
RbPopRest(q) == IF q = <<>> THEN q ELSE Tail(q)

\* the slot left as it was on an empty ring
RenderedSkipEmpty(old, q, gain) ==
    IF q = <<>> THEN old ELSE Mul(RbPopValue(q), gain)

\* audio.rs:235: the value written to an output slot
Rendered(old, q, gain) == Mul(RbPopValue(q), gain)

\* audio.rs:182
TargetRate(rate) == IF rate # NoRate THEN rate ELSE FallbackRate

\* the last supported range that contains the target
RECURSIVE FindConfigLast(_, _, _)
FindConfigLast(ranges, i, target) ==
    IF i > Len(ranges) THEN NoConfig
    ELSE LET later == FindConfigLast(ranges, i + 1, target) IN
         IF later # NoConfig THEN later
         ELSE IF ranges[i].min <= target /\ ranges[i].max >= target
              THEN [rate |-> target, channels |-> ranges[i].channels]
              ELSE NoConfig

\* audio.rs:186-192: the first supported range that contains the target
RECURSIVE FindConfig(_, _, _)
FindConfig(ranges, i, target) ==
    IF i > Len(ranges) THEN NoConfig
    ELSE IF ranges[i].min <= target /\ ranges[i].max >= target
         THEN [rate |-> target, channels |-> ranges[i].channels]
         ELSE FindConfig(ranges, i + 1, target)

\* audio.rs:184-193
BestConfig(dev, target) ==
    IF dev.cfgs_ok THEN FindConfig(dev.ranges, 1, target) ELSE NoConfig

\* audio.rs:195-203
StreamConfig(dev, target) ==
    LET best == BestConfig(dev, target) IN
    IF best # NoConfig THEN best
    ELSE IF dev.def_ok THEN dev.def
         ELSE [rate |-> HardcodedRate, channels |-> HardcodedChannels]

\* HashMap::new, insert, remove
EmptyMap == [x \in {} |-> 0]
MapInsert(f, k, v) == [x \in DOMAIN f \cup {k} |-> IF x = k THEN v ELSE f[x]]
MapRemove(f, k) == [x \in DOMAIN f \ {k} |-> f[x]]

\* nothing removed from the registry
RetainAll(ps, name) == ps

\* audio.rs:260: retain the entries of the other names
RECURSIVE Retain(_, _)
Retain(ps, name) ==
    IF ps = <<>> THEN <<>>
    ELSE IF Head(ps).name # name
         THEN <<Head(ps)>> \o Retain(Tail(ps), name)
         ELSE Retain(Tail(ps), name)

\* the registry entry whose consumer end the output callback of n owns
ConsumerIdx(n) ==
    CHOOSE i \in 1..Len(producers) : producers[i].name = n /\ producers[i].consumer

ProducerNames == [i \in 1..Len(producers) |-> producers[i].name]

\* The record of a step: the command the actor applied and how it ended,
\* NoCmd when the step was a callback's.
\* For AddOutput the record also keeps the device it resolved, the target rate
\* it negotiated against, and the stream names and the producer registry as
\* they were when the handler began.
\* For RemoveOutput it keeps whether the command applied just before it was
\* an AddOutput of the same name, how that one ended, and what that one kept.
NoCmd == [op |-> "none", name |-> "", res |-> "", dev |-> NoConfig,
          target |-> NoRate, streams |-> {}, prods |-> <<>>, after |-> ""]
Cmd(op, name, res) == [NoCmd EXCEPT !.op = op, !.name = name, !.res = res]
RemoveCmd(name, res) ==
    IF last.op = "AddOutput" /\ last.name = name
    THEN [last EXCEPT !.op = "RemoveOutput", !.res = res, !.after = last.res]
    ELSE Cmd("RemoveOutput", name, res)
AddCmd(name, res, dev, target) ==
    [op |-> "AddOutput", name |-> name, res |-> res,
     dev |-> dev, target |-> target,
     streams |-> DOMAIN output_streams, prods |-> producers, after |-> ""]

\* the actor between two commands (blocked in rx.recv(), audio.rs:274)
IdleActor == [pc |-> "idle", op |-> "none", name |-> "", vol |-> 0, mute |-> FALSE,
              k |-> 0]
FreshHist == [pushed |-> <<>>, popped |-> <<>>]

IdleCap == [pc |-> "idle", vol |-> 0, data |-> <<>>, p |-> 0, k |-> 0,
            mute_ok |-> TRUE, vol_ok |-> TRUE]
IdleCapObs == [free0 |-> 0, recv |-> <<>>, popped |-> FALSE]
IdleOcb == [pc |-> "idle", vol |-> 0, i |-> 0, mute_ok |-> TRUE, vol_ok |-> TRUE]
FreshReq == [mute |-> FALSE, vol |-> DefaultVolume, quiet |-> FALSE]
IdleOcObs == [mute |-> FALSE, volume |-> 0, req |-> FreshReq, got |-> 0]
FreshBuf == [i \in 1..Slots |-> 0]

(***************************************************************************)
(* AudioActor::new (audio.rs:42-53)                                        *)
(***************************************************************************)
Init ==
    /\ capture_stream = FALSE
    /\ capture_sample_rate = NoRate
    /\ producers = <<>>
    /\ output_streams = EmptyMap
    /\ volumes = EmptyMap
    /\ mutes = EmptyMap
    /\ input_volume = DefaultVolume
    /\ input_muted = FALSE
    /\ cap = IdleCap
    /\ ocb = [n \in Names |-> IdleOcb]
    /\ outbuf = [n \in Names |-> FreshBuf]
    /\ cap_obs = IdleCapObs
    /\ oc_obs = [n \in Names |-> IdleOcObs]
    /\ route_req = [n \in Names |-> FreshReq]
    /\ last = NoCmd
    /\ actor = IdleActor
    /\ rx = <<>>
    /\ tx = 1
    /\ sent = <<>>
    /\ applied = <<>>
    /\ hist = [n \in Names |-> FreshHist]

callbacks == <<cap, ocb, outbuf, cap_obs, oc_obs>>

(***************************************************************************)
(* The lock of the producer registry (audio.rs:31).  A guard of it lives   *)
(* from the lock() that returns it to the end of the block that binds it:  *)
(* the capture callback holds it from audio.rs:99 to 107, add_output from  *)
(* 209 to 211 and remove_output from 259 to 261.                           *)
(***************************************************************************)
RegistryHolder ==
    IF cap.pc = "push" THEN "capture"
    ELSE IF actor.pc \in {"add_locked", "rm_locked"} THEN "actor"
    ELSE "none"

\* the lock handed out whoever holds it
RegistryFreeAlways == TRUE

\* Mutex::lock returns once no other thread holds the lock
RegistryFree == RegistryHolder = "none"

(***************************************************************************)
(* The actor's command handlers.  A handler runs on the actor thread from  *)
(* its first line to its return.  A handler that locks the producer        *)
(* registry waits while the capture callback holds that lock; a handler    *)
(* that drops a stream waits for the stream's running callback to return.  *)
(***************************************************************************)

\* audio.rs:55-122
StartLoopback(dev_found, cfg_ok, rate, build_ok) ==
    /\ IF capture_stream
       THEN /\ UNCHANGED <<capture_stream, capture_sample_rate>>
            /\ last' = Cmd("StartLoopback", "", "running")
       ELSE IF ~dev_found
       THEN /\ UNCHANGED <<capture_stream, capture_sample_rate>>
            /\ last' = Cmd("StartLoopback", "", "nodev")
       ELSE IF ~cfg_ok
       THEN /\ UNCHANGED <<capture_stream, capture_sample_rate>>
            /\ last' = Cmd("StartLoopback", "", "noconfig")
       ELSE /\ capture_sample_rate' = rate
            /\ capture_stream' = build_ok
            /\ last' = Cmd("StartLoopback", "", IF build_ok THEN "built" ELSE "buildfail")
    /\ UNCHANGED <<producers, output_streams, volumes, mutes, input_volume,
                   input_muted, callbacks, route_req>>

\* audio.rs:124-128
StopLoopback ==
    /\ cap.pc = "idle"
    /\ capture_stream' = FALSE
    /\ last' = Cmd("StopLoopback", "", IF capture_stream THEN "stopped" ELSE "idle")
    /\ UNCHANGED <<capture_sample_rate, producers, output_streams, volumes, mutes,
                   input_volume, input_muted, callbacks, route_req>>

\* the write dropped
StoreVolumeKeep(cell, volume) == cell

\* audio.rs:134: *v = volume
StoreVolume(cell, volume) == volume

\* audio.rs:130-140
SetVolume(n, v) ==
    /\ IF n \in DOMAIN volumes
       THEN /\ volumes' = [volumes EXCEPT ![n] = StoreVolume(@, v)]
            /\ last' = Cmd("SetVolume", n, "updated")
       ELSE /\ UNCHANGED volumes
            /\ last' = Cmd("SetVolume", n, "unknown")
    /\ route_req' = IF n \in DOMAIN output_streams
                    THEN [route_req EXCEPT ![n].vol = v, ![n].quiet = route_req[n].mute]
                    ELSE route_req
    /\ UNCHANGED <<capture_stream, capture_sample_rate, producers, output_streams,
                   mutes, input_volume, input_muted, callbacks>>

\* audio.rs:142-149
SetMute(n, b) ==
    /\ IF n \in DOMAIN mutes
       THEN /\ mutes' = [mutes EXCEPT ![n] = b]
            /\ last' = Cmd("SetMute", n, "updated")
       ELSE /\ UNCHANGED mutes
            /\ last' = Cmd("SetMute", n, "unknown")
    /\ route_req' = IF n \in DOMAIN output_streams
                    THEN [route_req EXCEPT ![n].mute = b] ELSE route_req
    /\ UNCHANGED <<capture_stream, capture_sample_rate, producers, output_streams,
                   volumes, input_volume, input_muted, callbacks>>

\* audio.rs:151-154
SetInputVolume(v) ==
    /\ input_volume' = v
    /\ last' = Cmd("SetInputVolume", "", "updated")
    /\ UNCHANGED <<capture_stream, capture_sample_rate, producers, output_streams,
                   volumes, mutes, input_muted, callbacks, route_req>>

\* audio.rs:156-159
SetInputMute(b) ==
    /\ input_muted' = b
    /\ last' = Cmd("SetInputMute", "", "updated")
    /\ UNCHANGED <<capture_stream, capture_sample_rate, producers, output_streams,
                   volumes, mutes, input_volume, callbacks, route_req>>

\* the presence check left out
AlreadyPresentNever(n) == FALSE

\* audio.rs:162-165
AlreadyPresent(n) == n \in DOMAIN output_streams

\* audio.rs:207-211: the new ring's producer is registered
RegisterProducer(ps, n, attached) ==
    Append(ps, [name |-> n, q |-> <<>>, consumer |-> attached])

\* audio.rs:161-250
AddOutput(n, dev, found, build_ok) ==
    IF AlreadyPresent(n)
    THEN /\ last' = AddCmd(n, "exists", NoConfig, NoRate)
         /\ UNCHANGED <<engine, callbacks, route_req>>
    ELSE IF ~found
    THEN /\ last' = AddCmd(n, "nodev", NoConfig, NoRate)
         /\ UNCHANGED <<engine, callbacks, route_req>>
    ELSE /\ cap.pc # "push"
         /\ Len(producers) < MaxProducers
         /\ producers' = RegisterProducer(producers, n, build_ok)
         /\ volumes' = MapInsert(volumes, n, DefaultVolume)
         /\ mutes' = MapInsert(mutes, n, FALSE)
         /\ output_streams' =
                IF build_ok
                THEN MapInsert(output_streams, n,
                               StreamConfig(dev, TargetRate(capture_sample_rate)))
                ELSE output_streams
         /\ route_req' = [route_req EXCEPT ![n] = FreshReq]
         /\ last' = AddCmd(n, IF build_ok THEN "built" ELSE "buildfail",
                            dev, TargetRate(capture_sample_rate))
         /\ UNCHANGED <<capture_stream, capture_sample_rate, input_volume,
                        input_muted, callbacks>>

\* audio.rs:252-267
RemoveOutput(n) ==
    /\ ocb[n].pc = "idle"
    /\ cap.pc # "push"
    /\ output_streams' = MapRemove(output_streams, n)
    /\ producers' = Retain(producers, n)
    /\ volumes' = MapRemove(volumes, n)
    /\ mutes' = MapRemove(mutes, n)
    /\ ocb' = [ocb EXCEPT ![n] = IdleOcb]
    /\ outbuf' = [outbuf EXCEPT ![n] = FreshBuf]
    /\ oc_obs' = [oc_obs EXCEPT ![n] = IdleOcObs]
    /\ route_req' = [route_req EXCEPT ![n] = FreshReq]
    /\ last' = RemoveCmd(n, IF n \in DOMAIN output_streams
                             THEN "removed" ELSE "absent")
    /\ UNCHANGED <<capture_stream, capture_sample_rate, input_volume, input_muted,
                   cap, cap_obs>>

(***************************************************************************)
(* The capture callback (audio.rs:91-108), on the capture stream's thread. *)
(***************************************************************************)

\* audio.rs:93-97: the input gain is read once; mute_ok and vol_ok are the
\* results of locking the input mute cell and the input volume cell (Err
\* when the cell's mutex is poisoned)
CaptureBeginWith(block, mute_ok, vol_ok) ==
    /\ capture_stream
    /\ cap.pc = "idle"
    /\ cap' = [pc |-> "gain",
               vol |-> EffectiveGain(mute_ok, input_muted, vol_ok, input_volume),
               data |-> block, p |-> 0, k |-> 0,
               mute_ok |-> mute_ok, vol_ok |-> vol_ok]
    /\ last' = NoCmd
    /\ UNCHANGED <<engine, ocb, outbuf, cap_obs, oc_obs, route_req>>

\* audio.rs:93-97 with both locks granted
CaptureBegin(block) == CaptureBeginWith(block, TRUE, TRUE)

\* the observation of a producer loop that is about to start on entry i
StartObs(i) ==
    IF i <= Len(producers)
    THEN [free0 |-> Capacity - Len(producers[i].q), recv |-> <<>>,
          popped |-> FALSE]
    ELSE IdleCapObs

\* audio.rs:99: the registry lock is taken
CaptureLock ==
    /\ cap.pc = "gain"
    /\ RegistryFree
    /\ cap' = [cap EXCEPT !.pc = "push", !.p = 1, !.k = 1]
    /\ cap_obs' = StartObs(1)
    /\ last' = NoCmd
    /\ UNCHANGED <<engine, ocb, outbuf, oc_obs, route_req>>

\* audio.rs:101-105: one sample of the block for the current producer
CapturePush ==
    /\ cap.pc = "push"
    /\ cap.p <= Len(producers)
    /\ cap.k <= BlockLen
    /\ LET q == producers[cap.p].q
           q2 == RbPush(q, Mul(cap.data[cap.k], cap.vol))
       IN /\ producers' = [producers EXCEPT ![cap.p].q = q2]
          /\ cap_obs' = [cap_obs EXCEPT
                           !.recv = IF Len(q2) > Len(q)
                                    THEN Append(@, q2[Len(q2)]) ELSE @]
    /\ cap' = [cap EXCEPT !.k = @ + 1]
    /\ last' = NoCmd
    /\ UNCHANGED <<capture_stream, capture_sample_rate, output_streams, volumes,
                   mutes, input_volume, input_muted, ocb, outbuf, oc_obs,
                   route_req>>

\* audio.rs:100: the next entry of the registry
CaptureNext ==
    /\ cap.pc = "push"
    /\ cap.p <= Len(producers)
    /\ cap.k > BlockLen
    /\ cap' = [cap EXCEPT !.p = @ + 1, !.k = 1]
    /\ cap_obs' = StartObs(cap.p + 1)
    /\ last' = NoCmd
    /\ UNCHANGED <<engine, ocb, outbuf, oc_obs, route_req>>

\* audio.rs:107-108: the lock is released and the callback returns
CaptureEnd ==
    /\ cap.pc = "push"
    /\ cap.p > Len(producers)
    /\ cap' = IdleCap
    /\ cap_obs' = IdleCapObs
    /\ last' = NoCmd
    /\ UNCHANGED <<engine, ocb, outbuf, oc_obs, route_req>>

\* audio.rs:101-105: the whole block offered to one producer
RECURSIVE PushAll(_, _, _, _)
PushAll(q, data, vol, k) ==
    IF k > Len(data) THEN q
    ELSE PushAll(RbPush(q, Mul(data[k], vol)), data, vol, k + 1)

\* audio.rs:91-108: one invocation of the capture callback from its first
\* line to its return, with no step of another thread in between
CaptureBlock(block) ==
    /\ capture_stream
    /\ cap.pc = "idle"
    /\ LET vol == EffectiveGain(TRUE, input_muted, TRUE, input_volume) IN
       producers' = [i \in 1..Len(producers) |->
                        [producers[i] EXCEPT !.q = PushAll(@, block, vol, 1)]]
    /\ last' = NoCmd
    /\ UNCHANGED <<capture_stream, capture_sample_rate, output_streams, volumes,
                   mutes, input_volume, input_muted, callbacks, route_req>>

(***************************************************************************)
(* The output callback of route n (audio.rs:226-237), on that stream's     *)
(* thread.                                                                 *)
(***************************************************************************)

\* audio.rs:227-231: the route's gain is read once; mute_ok and vol_ok are
\* the results of locking the route's mute cell and volume cell
OutputBeginWith(n, mute_ok, vol_ok) ==
    /\ n \in DOMAIN output_streams
    /\ ocb[n].pc = "idle"
    /\ ocb' = [ocb EXCEPT ![n] =
                 [pc |-> "run",
                  vol |-> EffectiveGain(mute_ok, mutes[n], vol_ok, volumes[n]),
                  i |-> 1, mute_ok |-> mute_ok, vol_ok |-> vol_ok]]
    /\ oc_obs' = [oc_obs EXCEPT ![n] =
                 [mute |-> mutes[n], volume |-> volumes[n],
                  req |-> route_req[n],
                  got |-> 0]]
    /\ last' = NoCmd
    /\ UNCHANGED <<engine, cap, outbuf, cap_obs, route_req>>

\* audio.rs:227-231 with both locks granted
OutputBegin(n) == OutputBeginWith(n, TRUE, TRUE)

\* the route's cells read again for every slot
SlotGainReread(n) == EffectiveGain(TRUE, mutes[n], TRUE, volumes[n])

\* audio.rs:235: `vol`, bound once before the loop (audio.rs:227)
SlotGain(n) == ocb[n].vol

\* audio.rs:233-236: one slot of the buffer
OutputSlot(n) ==
    /\ ocb[n].pc = "run"
    /\ LET c == ConsumerIdx(n)
           q == producers[c].q
           i == ocb[n].i
       IN /\ outbuf' = [outbuf EXCEPT ![n][i] = Rendered(@, q, SlotGain(n))]
          /\ producers' = [producers EXCEPT ![c].q = RbPopRest(q)]
          /\ oc_obs' = [oc_obs EXCEPT ![n].got = IF q = <<>> THEN @ ELSE @ + 1]
          /\ cap_obs' = IF cap.pc = "push" /\ cap.p = c /\ q # <<>>
                        THEN [cap_obs EXCEPT !.popped = TRUE] ELSE cap_obs
          /\ ocb' = [ocb EXCEPT ![n] =
                       IF i = Slots THEN IdleOcb
                       ELSE [@ EXCEPT !.i = i + 1]]
    /\ last' = NoCmd
    /\ UNCHANGED <<capture_stream, capture_sample_rate, output_streams, volumes,
                   mutes, input_volume, input_muted, cap, route_req>>

\* audio.rs:233-236: slots i..Slots of the buffer filled from ring q
RECURSIVE FillFrom(_, _, _, _)
FillFrom(buf, q, vol, i) ==
    IF i > Slots THEN buf
    ELSE FillFrom([buf EXCEPT ![i] = Rendered(@, q, vol)], RbPopRest(q), vol, i + 1)

\* audio.rs:233-236: ring q after one pop per slot of the buffer
RECURSIVE PopAll(_, _)
PopAll(q, i) == IF i > Slots THEN q ELSE PopAll(RbPopRest(q), i + 1)

\* audio.rs:226-237: one invocation of the output callback of route n from
\* its first line to its return, with no step of another thread in between
OutputBlock(n) ==
    /\ n \in DOMAIN output_streams
    /\ ocb[n].pc = "idle"
    /\ LET c == ConsumerIdx(n)
           q == producers[c].q
           vol == EffectiveGain(TRUE, mutes[n], TRUE, volumes[n])
       IN /\ outbuf' = [outbuf EXCEPT ![n] = FillFrom(@, q, vol, 1)]
          /\ producers' = [producers EXCEPT ![c].q = PopAll(q, 1)]
          /\ oc_obs' = [oc_obs EXCEPT ![n] =
                         [mute |-> mutes[n], volume |-> volumes[n],
                          req |-> route_req[n],
                          got |-> Len(q) - Len(PopAll(q, 1))]]
          /\ cap_obs' = IF cap.pc = "push" /\ cap.p = c /\ q # <<>>
                        THEN [cap_obs EXCEPT !.popped = TRUE] ELSE cap_obs
    /\ last' = NoCmd
    /\ UNCHANGED <<capture_stream, capture_sample_rate, output_streams, volumes,
                   mutes, input_volume, input_muted, cap, ocb, route_req>>

(***************************************************************************)
(* The actor thread step by step (audio.rs:272-286).  The loop takes one   *)
(* command and runs its handler to its return before it takes the next.    *)
(* add_output and remove_output are taken one statement at a time, so that *)
(* the callbacks' steps fall between their statements; the other handlers  *)
(* are single steps.                                                       *)
(***************************************************************************)

\* AudioCommand (audio.rs:17-26)
Command(op, name, vol, mute) == [op |-> op, name |-> name, vol |-> vol, mute |-> mute]

\* the actor about to run the handler of cmd (audio.rs:275)
Handling(cmd) ==
    [pc |-> "handle", op |-> cmd.op, name |-> cmd.name, vol |-> cmd.vol,
     mute |-> cmd.mute, k |-> 0]

\* the next command taken while a handler is still running
ActorReadyAlways == actor.pc # "done"

\* audio.rs:274: the loop is at rx.recv()
ActorReady == actor.pc = "idle"

\* audio.rs:274-275: a command reaches the actor, the channel left aside
Take(cmd) ==
    /\ ActorReady
    /\ actor' = Handling(cmd)
    /\ last' = NoCmd
    /\ UNCHANGED <<engine, callbacks, route_req, channel, hist>>

\* crossbeam_channel: recv yields the oldest message of the channel
Dequeued(q) == Head(q)

\* lib.rs:28-76: a caller enqueues a command; send on the unbounded channel
\* (audio.rs:271) never waits
Send(cmd) ==
    /\ tx > 0
    /\ Len(sent) < MaxSent
    /\ rx' = Append(rx, cmd)
    /\ sent' = Append(sent, cmd)
    /\ last' = NoCmd
    /\ UNCHANGED <<engine, callbacks, route_req, actor, tx, applied, hist>>

\* audio.rs:274-275: the loop receives the next command
Recv ==
    /\ ActorReady
    /\ rx # <<>>
    /\ actor' = Handling(Dequeued(rx))
    /\ applied' = Append(applied, Dequeued(rx))
    /\ rx' = Tail(rx)
    /\ last' = NoCmd
    /\ UNCHANGED <<engine, callbacks, route_req, tx, sent, hist>>

\* the Sender is dropped (the application state that owns it goes away)
DropSender ==
    /\ tx > 0
    /\ tx' = tx - 1
    /\ last' = NoCmd
    /\ UNCHANGED <<engine, callbacks, route_req, actor, rx, sent, applied, hist>>

\* recv gives up as soon as no sender is left
DisconnectedEarly == tx = 0

\* crossbeam_channel: recv returns Err once the channel is empty and every
\* sender is dropped
Disconnected == tx = 0 /\ rx = <<>>

\* audio.rs:274, 286: recv returns Err and the thread's closure returns
Exit ==
    /\ ActorReady
    /\ Disconnected
    /\ actor' = [IdleActor EXCEPT !.pc = "done"]
    /\ last' = NoCmd
    /\ UNCHANGED <<engine, callbacks, route_req, channel, hist>>

\* the handler returns to the loop
Return == actor' = IdleActor /\ UNCHANGED <<channel, hist>>

\* audio.rs:276-277, 280-283: the handlers taken as single steps
HandleStart ==
    /\ actor.pc = "handle" /\ actor.op = "StartLoopback"
    /\ \E dev_found, cfg_ok, build_ok \in BOOLEAN, rate \in CaptureRates :
           StartLoopback(dev_found, cfg_ok, rate, build_ok)
    /\ Return
HandleStop ==
    /\ actor.pc = "handle" /\ actor.op = "StopLoopback"
    /\ StopLoopback
    /\ Return
HandleSetVolume ==
    /\ actor.pc = "handle" /\ actor.op = "SetVolume"
    /\ SetVolume(actor.name, actor.vol)
    /\ Return
HandleSetMute ==
    /\ actor.pc = "handle" /\ actor.op = "SetMute"
    /\ SetMute(actor.name, actor.mute)
    /\ Return
HandleSetInputVolume ==
    /\ actor.pc = "handle" /\ actor.op = "SetInputVolume"
    /\ SetInputVolume(actor.vol)
    /\ Return
HandleSetInputMute ==
    /\ actor.pc = "handle" /\ actor.op = "SetInputMute"
    /\ SetInputMute(actor.mute)
    /\ Return

\* audio.rs:162-179: the presence check and the device lookup of add_output
AddResolve(found) ==
    /\ actor.pc = "handle" /\ actor.op = "AddOutput"
    /\ IF AlreadyPresent(actor.name)
       THEN /\ last' = Cmd("AddOutput", actor.name, "exists")
            /\ actor' = IdleActor
       ELSE IF ~found
       THEN /\ last' = Cmd("AddOutput", actor.name, "nodev")
            /\ actor' = IdleActor
       ELSE /\ Len(producers) < MaxProducers
            /\ last' = NoCmd
            /\ actor' = [actor EXCEPT !.pc = "add_ring"]
    /\ UNCHANGED <<engine, callbacks, route_req, channel, hist>>

\* audio.rs:209: the registry lock is taken
AddLock ==
    /\ actor.pc = "add_ring"
    /\ RegistryFree
    /\ actor' = [actor EXCEPT !.pc = "add_locked"]
    /\ last' = NoCmd
    /\ UNCHANGED <<engine, callbacks, route_req, channel, hist>>

\* audio.rs:207, 210-211: the new ring's producer is pushed and the lock
\* released; the consumer end stays with the handler
AddRegister ==
    /\ actor.pc = "add_locked"
    /\ producers' = RegisterProducer(producers, actor.name, TRUE)
    /\ actor' = [actor EXCEPT !.pc = "add_vol"]
    /\ last' = NoCmd
    /\ UNCHANGED <<capture_stream, capture_sample_rate, output_streams, volumes,
                   mutes, input_volume, input_muted, callbacks, route_req,
                   channel, hist>>

\* audio.rs:214-215
AddVolume ==
    /\ actor.pc = "add_vol"
    /\ volumes' = MapInsert(volumes, actor.name, DefaultVolume)
    /\ actor' = [actor EXCEPT !.pc = "add_mute"]
    /\ last' = NoCmd
    /\ UNCHANGED <<capture_stream, capture_sample_rate, producers, output_streams,
                   mutes, input_volume, input_muted, callbacks, route_req,
                   channel, hist>>

\* audio.rs:218-219
AddMute ==
    /\ actor.pc = "add_mute"
    /\ mutes' = MapInsert(mutes, actor.name, FALSE)
    /\ actor' = [actor EXCEPT !.pc = "add_build"]
    /\ last' = NoCmd
    /\ UNCHANGED <<capture_stream, capture_sample_rate, producers, output_streams,
                   volumes, input_volume, input_muted, callbacks, route_req,
                   channel, hist>>

\* audio.rs:248: the closure that owns the consumer end is dropped with the
\* stream that could not be built; the producer stays registered
DropConsumer(ps) == [ps EXCEPT ![Len(ps)].consumer = FALSE]

\* audio.rs:224-249: the stream is built, started and stored, or the failure
\* is logged
AddBuild(dev, build_ok) ==
    /\ actor.pc = "add_build"
    /\ IF build_ok
       THEN /\ output_streams' =
                   MapInsert(output_streams, actor.name,
                             StreamConfig(dev, TargetRate(capture_sample_rate)))
            /\ UNCHANGED producers
       ELSE /\ producers' = DropConsumer(producers)
            /\ UNCHANGED output_streams
    /\ route_req' = [route_req EXCEPT ![actor.name] = FreshReq]
    /\ last' = Cmd("AddOutput", actor.name, IF build_ok THEN "built" ELSE "buildfail")
    /\ actor' = IdleActor
    /\ UNCHANGED <<capture_stream, capture_sample_rate, volumes, mutes,
                   input_volume, input_muted, callbacks, channel, hist>>

\* the control cells discarded first and the stream dropped last
RemoveOrderStreamLast == <<"mute", "volume", "registry", "stream">>

\* audio.rs:254-266: the order of the statements of remove_output
RemoveOrder == <<"stream", "registry", "volume", "mute">>

\* audio.rs:252
RemoveBegin ==
    /\ actor.pc = "handle" /\ actor.op = "RemoveOutput"
    /\ actor' = [actor EXCEPT !.pc = "rm", !.k = 1]
    /\ last' = NoCmd
    /\ UNCHANGED <<engine, callbacks, route_req, channel, hist>>

\* the actor after the k-th statement of remove_output
Removed ==
    IF actor.k = Len(RemoveOrder) THEN IdleActor
    ELSE [actor EXCEPT !.pc = "rm", !.k = @ + 1]
RemovedCmd ==
    IF actor.k = Len(RemoveOrder) THEN Cmd("RemoveOutput", actor.name, "done")
    ELSE NoCmd

\* audio.rs:254-256: the stream is taken out of the map and dropped; the drop
\* returns once the stream's callback is not running
RemoveStream ==
    /\ actor.pc = "rm" /\ RemoveOrder[actor.k] = "stream"
    /\ ocb[actor.name].pc = "idle"
    /\ output_streams' = MapRemove(output_streams, actor.name)
    /\ ocb' = [ocb EXCEPT ![actor.name] = IdleOcb]
    /\ outbuf' = [outbuf EXCEPT ![actor.name] = FreshBuf]
    /\ oc_obs' = [oc_obs EXCEPT ![actor.name] = IdleOcObs]
    /\ route_req' = [route_req EXCEPT ![actor.name] = FreshReq]
    /\ actor' = Removed
    /\ last' = RemovedCmd
    /\ UNCHANGED <<capture_stream, capture_sample_rate, producers, volumes, mutes,
                   input_volume, input_muted, cap, cap_obs, channel, hist>>

\* audio.rs:259: the registry lock is taken
RemoveLock ==
    /\ actor.pc = "rm" /\ RemoveOrder[actor.k] = "registry"
    /\ RegistryFree
    /\ actor' = [actor EXCEPT !.pc = "rm_locked"]
    /\ last' = NoCmd
    /\ UNCHANGED <<engine, callbacks, route_req, channel, hist>>

\* audio.rs:260-261: the entries of the name are dropped and the lock released
RemoveRetain ==
    /\ actor.pc = "rm_locked"
    /\ producers' = Retain(producers, actor.name)
    /\ actor' = Removed
    /\ last' = RemovedCmd
    /\ UNCHANGED <<capture_stream, capture_sample_rate, output_streams, volumes,
                   mutes, input_volume, input_muted, callbacks, route_req,
                   channel, hist>>

\* audio.rs:264
RemoveVolume ==
    /\ actor.pc = "rm" /\ RemoveOrder[actor.k] = "volume"
    /\ volumes' = MapRemove(volumes, actor.name)
    /\ actor' = Removed
    /\ last' = RemovedCmd
    /\ UNCHANGED <<capture_stream, capture_sample_rate, producers, output_streams,
                   mutes, input_volume, input_muted, callbacks, route_req,
                   channel, hist>>

\* audio.rs:266
RemoveMute ==
    /\ actor.pc = "rm" /\ RemoveOrder[actor.k] = "mute"
    /\ mutes' = MapRemove(mutes, actor.name)
    /\ actor' = Removed
    /\ last' = RemovedCmd
    /\ UNCHANGED <<capture_stream, capture_sample_rate, producers, output_streams,
                   volumes, input_volume, input_muted, callbacks, route_req,
                   channel, hist>>

(***************************************************************************)
(* The locks of the control cells.  A cell is named by the field that      *)
(* holds it (input_muted, input_volume, and mutes / volumes of a route).   *)
(* As with the registry, who holds a cell's lock follows from where the    *)
(* threads are: a guard lives to the end of the block that binds it.       *)
(***************************************************************************)

\* set_input_volume locking the input mute cell too, inside the volume lock
SetInputVolumeLocksBoth == <<"input_volume", "input_muted">>

\* audio.rs:153: the cells set_input_volume locks, outermost first
SetInputVolumeLocks == <<"input_volume">>

\* audio.rs:133, 145, 153, 158: the cells a Set* handler locks
SetLocks(op) ==
    CASE op = "SetVolume" -> <<"volumes">>
      [] op = "SetMute" -> <<"mutes">>
      [] op = "SetInputVolume" -> SetInputVolumeLocks
      [] op = "SetInputMute" -> <<"input_muted">>
      [] OTHER -> <<>>

SetOps == {"SetVolume", "SetMute", "SetInputVolume", "SetInputMute"}

\* audio.rs:132, 144: a route's cell is looked up by name first
CellKnown ==
    CASE actor.op = "SetVolume" -> actor.name \in DOMAIN volumes
      [] actor.op = "SetMute" -> actor.name \in DOMAIN mutes
      [] OTHER -> TRUE

\* the actor is inside the if-let blocks of the first actor.k cells
ActorHolds(cell, n) ==
    /\ actor.pc = "cells"
    /\ \E j \in 1..actor.k : SetLocks(actor.op)[j] = cell
    /\ cell \in {"mutes", "volumes"} => actor.name = n

\* audio.rs:93-97: the mute guard lives around the volume guard
CaptureHolds(cell) ==
    \/ cell = "input_muted" /\ cap.pc \in {"mute", "vol"}
    \/ cell = "input_volume" /\ cap.pc = "vol"

\* audio.rs:227-231
OutputHolds(cell, n) ==
    /\ n \in Names
    /\ \/ cell = "mutes" /\ ocb[n].pc \in {"mute", "vol"}
       \/ cell = "volumes" /\ ocb[n].pc = "vol"

\* Mutex::lock on a cell returns once no other thread holds its lock
CellFree(cell, n) ==
    ~ActorHolds(cell, n) /\ ~CaptureHolds(cell) /\ ~OutputHolds(cell, n)

\* audio.rs:132-133, 144-145, 153, 158: the handler locks its next cell
SetLock ==
    /\ actor.pc \in {"handle", "cells"} /\ actor.op \in SetOps
    /\ CellKnown
    /\ actor.k < Len(SetLocks(actor.op))
    /\ CellFree(SetLocks(actor.op)[actor.k + 1], actor.name)
    /\ actor' = [actor EXCEPT !.pc = "cells", !.k = @ + 1]
    /\ last' = NoCmd
    /\ UNCHANGED <<engine, callbacks, route_req, channel, hist>>

\* audio.rs:134, 145, 153, 158: the value is stored, the guards are dropped
\* and the handler returns
SetStore ==
    /\ actor.pc = "cells"
    /\ actor.k = Len(SetLocks(actor.op))
    /\ CASE actor.op = "SetVolume" -> SetVolume(actor.name, actor.vol)
         [] actor.op = "SetMute" -> SetMute(actor.name, actor.mute)
         [] actor.op = "SetInputVolume" -> SetInputVolume(actor.vol)
         [] actor.op = "SetInputMute" -> SetInputMute(actor.mute)
    /\ Return

\* audio.rs:137-139, 146-148: no cell of that name
SetUnknown ==
    /\ actor.pc = "handle" /\ actor.op \in {"SetVolume", "SetMute"}
    /\ ~CellKnown
    /\ IF actor.op = "SetVolume" THEN SetVolume(actor.name, actor.vol)
       ELSE SetMute(actor.name, actor.mute)
    /\ Return

\* audio.rs:93: the capture callback is invoked and locks the input mute cell
CaptureLockMute(block) ==
    /\ capture_stream
    /\ cap.pc = "idle"
    /\ CellFree("input_muted", "")
    /\ cap' = [IdleCap EXCEPT !.pc = "mute", !.data = block]
    /\ last' = NoCmd
    /\ UNCHANGED <<engine, ocb, outbuf, cap_obs, oc_obs, route_req, aux>>

\* audio.rs:95: not muted, the input volume cell is locked inside
CaptureLockVol ==
    /\ cap.pc = "mute"
    /\ ~input_muted
    /\ CellFree("input_volume", "")
    /\ cap' = [cap EXCEPT !.pc = "vol"]
    /\ last' = NoCmd
    /\ UNCHANGED <<engine, ocb, outbuf, cap_obs, oc_obs, route_req, aux>>

\* audio.rs:93-97: the gain is bound and both guards are dropped
CaptureGain ==
    /\ \/ cap.pc = "mute" /\ input_muted
       \/ cap.pc = "vol"
    /\ cap' = [cap EXCEPT !.pc = "gain",
                           !.vol = EffectiveGain(TRUE, input_muted, TRUE, input_volume)]
    /\ last' = NoCmd
    /\ UNCHANGED <<engine, ocb, outbuf, cap_obs, oc_obs, route_req, aux>>

\* audio.rs:227: the output callback of n is invoked and locks n's mute cell
OutputLockMute(n) ==
    /\ n \in DOMAIN output_streams
    /\ ocb[n].pc = "idle"
    /\ CellFree("mutes", n)
    /\ ocb' = [ocb EXCEPT ![n] = [IdleOcb EXCEPT !.pc = "mute"]]
    /\ last' = NoCmd
    /\ UNCHANGED <<engine, cap, outbuf, cap_obs, oc_obs, route_req, aux>>

\* audio.rs:229: not muted, n's volume cell is locked inside
OutputLockVol(n) ==
    /\ ocb[n].pc = "mute"
    /\ ~mutes[n]
    /\ CellFree("volumes", n)
    /\ ocb' = [ocb EXCEPT ![n].pc = "vol"]
    /\ last' = NoCmd
    /\ UNCHANGED <<engine, cap, outbuf, cap_obs, oc_obs, route_req, aux>>

\* audio.rs:227-231: the gain is bound and both guards are dropped
OutputGain(n) ==
    /\ \/ ocb[n].pc = "mute" /\ mutes[n]
       \/ ocb[n].pc = "vol"
    /\ ocb' = [ocb EXCEPT ![n] =
                 [@ EXCEPT !.pc = "run", !.i = 1,
                           !.vol = EffectiveGain(TRUE, mutes[n], TRUE, volumes[n])]]
    /\ last' = NoCmd
    /\ UNCHANGED <<engine, cap, outbuf, cap_obs, oc_obs, route_req, aux>>

\* audio.rs:100-107: both loops of the capture callback under the registry
\* lock, then the lock released and the callback's return
CaptureFill ==
    /\ cap.pc = "push"
    /\ producers' = [i \in 1..Len(producers) |->
                        [producers[i] EXCEPT !.q = PushAll(@, cap.data, cap.vol, 1)]]
    /\ cap' = IdleCap
    /\ cap_obs' = IdleCapObs
    /\ last' = NoCmd
    /\ UNCHANGED <<capture_stream, capture_sample_rate, output_streams, volumes,
                   mutes, input_volume, input_muted, ocb, outbuf, oc_obs,
                   route_req, aux>>

\* audio.rs:233-237: every slot of the buffer filled, then the callback's
\* return
OutputFill(n) ==
    /\ ocb[n].pc = "run"
    /\ LET c == ConsumerIdx(n)
           q == producers[c].q
       IN /\ outbuf' = [outbuf EXCEPT ![n] = FillFrom(@, q, ocb[n].vol, 1)]
          /\ producers' = [producers EXCEPT ![c].q = PopAll(q, 1)]
    /\ ocb' = [ocb EXCEPT ![n] = IdleOcb]
    /\ last' = NoCmd
    /\ UNCHANGED <<capture_stream, capture_sample_rate, output_streams, volumes,
                   mutes, input_volume, input_muted, cap, cap_obs, oc_obs,
                   route_req, aux>>

(***************************************************************************)
(* spawn_audio_thread (audio.rs:270-288): the actor applies one command    *)
(* at a time; the callbacks run on their own threads.  Spec is the whole   *)
(* engine; the specifications after it are Spec with the commands' inputs  *)
(* narrowed, each keeping step by step the callback it is about and taking *)
(* the other callback one whole invocation at a time.                      *)
(***************************************************************************)
Flat == [i \in 1..BlockLen |-> 1]
Silence == [i \in 1..BlockLen |-> 0]
Ramp == [i \in 1..BlockLen |-> i]

Next ==
    \/ \E dev_found, cfg_ok, build_ok \in BOOLEAN, rate \in CaptureRates :
           StartLoopback(dev_found, cfg_ok, rate, build_ok) /\ UNCHANGED aux
    \/ StopLoopback /\ UNCHANGED aux
    \/ \E n \in Names, dev \in Devices, found, build_ok \in BOOLEAN :
           AddOutput(n, dev, found, build_ok) /\ UNCHANGED aux
    \/ \E n \in Names : RemoveOutput(n) /\ UNCHANGED aux
    \/ \E n \in Names, v \in Volumes : SetVolume(n, v) /\ UNCHANGED aux
    \/ \E n \in Names, b \in BOOLEAN : SetMute(n, b) /\ UNCHANGED aux
    \/ \E v \in Volumes : SetInputVolume(v) /\ UNCHANGED aux
    \/ \E b \in BOOLEAN : SetInputMute(b) /\ UNCHANGED aux
    \/ \E block \in {Flat, Ramp} : CaptureBegin(block) /\ UNCHANGED aux
    \/ CaptureLock /\ UNCHANGED aux
    \/ CapturePush /\ UNCHANGED aux
    \/ CaptureNext /\ UNCHANGED aux
    \/ CaptureEnd /\ UNCHANGED aux
    \/ \E n \in Names : OutputBegin(n) /\ UNCHANGED aux
    \/ \E n \in Names : OutputSlot(n) /\ UNCHANGED aux

Spec == Init /\ [][Next]_vars

(***************************************************************************)
(* SpecRender: one route and its output callback.  The route is added,     *)
(* muted, unmuted, given volumes and removed while the capture callback    *)
(* feeds it a ramp, one whole invocation at a time, and its output         *)
(* callback drains it slot by slot.                                        *)
(***************************************************************************)
RenderNames == {"A"}

NextRender ==
    \/ StartLoopback(TRUE, TRUE, FallbackRate, TRUE) /\ UNCHANGED aux
    \/ StopLoopback /\ UNCHANGED aux
    \/ \E n \in RenderNames : AddOutput(n, Multi, TRUE, TRUE) /\ UNCHANGED aux
    \/ \E n \in RenderNames : RemoveOutput(n) /\ UNCHANGED aux
    \/ \E n \in RenderNames, v \in Volumes : SetVolume(n, v) /\ UNCHANGED aux
    \/ \E n \in RenderNames, b \in BOOLEAN : SetMute(n, b) /\ UNCHANGED aux
    \/ CaptureBlock(Ramp) /\ UNCHANGED aux
    \/ \E n \in RenderNames : OutputBegin(n) /\ UNCHANGED aux
    \/ \E n \in RenderNames : OutputSlot(n) /\ UNCHANGED aux

SpecRender == Init /\ [][NextRender]_vars

(***************************************************************************)
(* SpecFanout: the capture callback.  Routes are added and removed and the *)
(* input gain is raised and then muted while the capture callback fans a   *)
(* ramp out to the registry sample by sample and the output callback of    *)
(* one route drains its ring, one whole invocation at a time.              *)
(***************************************************************************)
NextFanout ==
    \/ StartLoopback(TRUE, TRUE, FallbackRate, TRUE) /\ UNCHANGED aux
    \/ \E n \in Names : AddOutput(n, Multi, TRUE, TRUE) /\ UNCHANGED aux
    \/ \E n \in Names : RemoveOutput(n) /\ UNCHANGED aux
    \/ SetInputVolume(2) /\ UNCHANGED aux
    \/ SetInputMute(TRUE) /\ UNCHANGED aux
    \/ CaptureBegin(Ramp) /\ UNCHANGED aux
    \/ CaptureLock /\ UNCHANGED aux
    \/ CapturePush /\ UNCHANGED aux
    \/ CaptureNext /\ UNCHANGED aux
    \/ CaptureEnd /\ UNCHANGED aux
    \/ \E n \in RenderNames : OutputBlock(n) /\ UNCHANGED aux

SpecFanout == Init /\ [][NextFanout]_vars

(***************************************************************************)
(* SpecRegistry: the stream map, the producer registry and the control     *)
(* cells under AddOutput (with every outcome of device resolution and      *)
(* stream construction), RemoveOutput, SetVolume and SetMute, while the    *)
(* capture callback pushes into the registered rings.                      *)
(***************************************************************************)
NextRegistry ==
    \/ StartLoopback(TRUE, TRUE, FallbackRate, TRUE) /\ UNCHANGED aux
    \/ StopLoopback /\ UNCHANGED aux
    \/ \E n \in Names : AddOutput(n, Multi, TRUE, TRUE) /\ UNCHANGED aux
    \/ \E n \in Names, found \in BOOLEAN : AddOutput(n, Multi, found, FALSE) /\ UNCHANGED aux
    \/ \E n \in Names : RemoveOutput(n) /\ UNCHANGED aux
    \/ \E n \in Names, v \in Volumes : SetVolume(n, v) /\ UNCHANGED aux
    \/ \E n \in Names, b \in BOOLEAN : SetMute(n, b) /\ UNCHANGED aux
    \/ CaptureBegin(Flat) /\ UNCHANGED aux
    \/ CaptureLock /\ UNCHANGED aux
    \/ CapturePush /\ UNCHANGED aux
    \/ CaptureNext /\ UNCHANGED aux
    \/ CaptureEnd /\ UNCHANGED aux

SpecRegistry == Init /\ [][NextRegistry]_vars

(***************************************************************************)
(* SpecRates: sample-rate negotiation.  Capture is started with every      *)
(* outcome and stopped, and one output is added on every device.           *)
(***************************************************************************)
NextRates ==
    \/ \E dev_found, cfg_ok, build_ok \in BOOLEAN, rate \in CaptureRates :
           StartLoopback(dev_found, cfg_ok, rate, build_ok) /\ UNCHANGED aux
    \/ StopLoopback /\ UNCHANGED aux
    \/ \E n \in Names, dev \in Devices, found, build_ok \in BOOLEAN :
           AddOutput(n, dev, found, build_ok) /\ UNCHANGED aux
    \/ \E n \in Names : RemoveOutput(n) /\ UNCHANGED aux

SpecRates == Init /\ [][NextRates]_vars

(***************************************************************************)
(* SpecDrain: capture is started and stopped while one name is added, with *)
(* its stream built or not, and removed.  Every output stream's callback   *)
(* is invoked again and again by its driver, and an invocation that began  *)
(* runs to its return.                                                     *)
(***************************************************************************)
NextDrain ==
    \/ StartLoopback(TRUE, TRUE, FallbackRate, TRUE) /\ UNCHANGED aux
    \/ StopLoopback /\ UNCHANGED aux
    \/ \E n \in RenderNames, build_ok \in BOOLEAN :
           AddOutput(n, Multi, TRUE, build_ok) /\ UNCHANGED aux
    \/ \E n \in RenderNames : RemoveOutput(n) /\ UNCHANGED aux
    \/ CaptureBlock(Flat) /\ UNCHANGED aux
    \/ \E n \in RenderNames : OutputBegin(n) /\ UNCHANGED aux
    \/ \E n \in RenderNames : OutputSlot(n) /\ UNCHANGED aux

DriverFairness ==
    \A n \in RenderNames : /\ WF_vars(OutputBegin(n) /\ UNCHANGED aux)
                           /\ WF_vars(OutputSlot(n) /\ UNCHANGED aux)

SpecDrain == Init /\ [][NextDrain]_vars /\ DriverFairness

(***************************************************************************)
(* SpecTeardown: routes are added, with their stream built or not, and     *)
(* removed statement by statement while the steps of the live streams'    *)
(* callbacks fall between the statements.  Capture is not started: the     *)
(* rings stay empty.                                                       *)
(***************************************************************************)
NextTeardown ==
    \/ \E n \in Names : Take(Command("AddOutput", n, 0, FALSE))
    \/ \E n \in Names : Take(Command("RemoveOutput", n, 0, FALSE))
    \/ \E found \in BOOLEAN : AddResolve(found)
    \/ AddLock
    \/ AddRegister
    \/ AddVolume
    \/ AddMute
    \/ \E build_ok \in BOOLEAN : AddBuild(Multi, build_ok)
    \/ RemoveBegin
    \/ RemoveStream
    \/ RemoveLock
    \/ RemoveRetain
    \/ RemoveVolume
    \/ RemoveMute
    \/ \E n \in Names : OutputBegin(n) /\ UNCHANGED aux
    \/ \E n \in Names : OutputSlot(n) /\ UNCHANGED aux

SpecTeardown == Init /\ [][NextTeardown]_vars

(***************************************************************************)
(* SpecPoison: the gain read of both callbacks with every result of        *)
(* locking the mute cell and the volume cell, on one route that is muted   *)
(* at some point, while the input is too.                                  *)
(***************************************************************************)
NextPoison ==
    \/ StartLoopback(TRUE, TRUE, FallbackRate, TRUE) /\ UNCHANGED aux
    \/ \E n \in RenderNames : AddOutput(n, Multi, TRUE, TRUE) /\ UNCHANGED aux
    \/ \E n \in RenderNames : SetMute(n, TRUE) /\ UNCHANGED aux
    \/ SetInputMute(TRUE) /\ UNCHANGED aux
    \/ \E mute_ok, vol_ok \in BOOLEAN :
           CaptureBeginWith(Flat, mute_ok, vol_ok) /\ UNCHANGED aux
    \/ CaptureLock /\ UNCHANGED aux
    \/ CapturePush /\ UNCHANGED aux
    \/ CaptureNext /\ UNCHANGED aux
    \/ CaptureEnd /\ UNCHANGED aux
    \/ \E n \in RenderNames, mute_ok, vol_ok \in BOOLEAN :
           OutputBeginWith(n, mute_ok, vol_ok) /\ UNCHANGED aux
    \/ \E n \in RenderNames : OutputSlot(n) /\ UNCHANGED aux

SpecPoison == Init /\ [][NextPoison]_vars

(***************************************************************************)
(* SpecChannel: callers enqueue commands on the channel in any order and   *)
(* at any moment, and the actor loop receives and handles them, add_output *)
(* and remove_output statement by statement, while the callbacks run, one  *)
(* whole invocation at a time.                                             *)
(***************************************************************************)
Commands ==
    {Command("StartLoopback", "", 0, FALSE), Command("StopLoopback", "", 0, FALSE),
     Command("SetInputVolume", "", 2, FALSE), Command("SetInputMute", "", 0, TRUE)}
    \cup {Command("AddOutput", n, 0, FALSE) : n \in RenderNames}
    \cup {Command("RemoveOutput", n, 0, FALSE) : n \in RenderNames}
    \cup {Command("SetVolume", n, 2, FALSE) : n \in RenderNames}
    \cup {Command("SetMute", n, 0, TRUE) : n \in RenderNames}

NextChannel ==
    \/ \E cmd \in Commands : Send(cmd)
    \/ Recv
    \/ HandleStart
    \/ HandleStop
    \/ HandleSetVolume
    \/ HandleSetMute
    \/ HandleSetInputVolume
    \/ HandleSetInputMute
    \/ \E found \in BOOLEAN : AddResolve(found)
    \/ AddLock
    \/ AddRegister
    \/ AddVolume
    \/ AddMute
    \/ \E build_ok \in BOOLEAN : AddBuild(Multi, build_ok)
    \/ RemoveBegin
    \/ RemoveStream
    \/ RemoveLock
    \/ RemoveRetain
    \/ RemoveVolume
    \/ RemoveMute
    \/ CaptureBlock(Flat) /\ UNCHANGED aux
    \/ \E n \in RenderNames : OutputBlock(n) /\ UNCHANGED aux

SpecChannel == Init /\ [][NextChannel]_vars

(***************************************************************************)
(* SpecLoop: the actor loop from its start to its end.  Callers enqueue    *)
(* commands and at some point drop the Sender; the actor handles what it   *)
(* receives, add_output and remove_output statement by statement, while    *)
(* both callbacks run step by step on silence.  The actor is scheduled     *)
(* again and again, also where it waits for a lock or for a stream's       *)
(* callback to return, and a callback invocation that began runs to its    *)
(* return.                                                                 *)
(***************************************************************************)
LoopCommands ==
    {Command("StartLoopback", "", 0, FALSE)}
    \cup {Command("AddOutput", n, 0, FALSE) : n \in RenderNames}
    \cup {Command("RemoveOutput", n, 0, FALSE) : n \in RenderNames}

ActorStep ==
    \/ Recv
    \/ Exit
    \/ HandleStart
    \/ \E found \in BOOLEAN : AddResolve(found)
    \/ AddLock
    \/ AddRegister
    \/ AddVolume
    \/ AddMute
    \/ \E build_ok \in BOOLEAN : AddBuild(Multi, build_ok)
    \/ RemoveBegin
    \/ RemoveStream
    \/ RemoveLock
    \/ RemoveRetain
    \/ RemoveVolume
    \/ RemoveMute

CaptureRun ==
    \/ CaptureLock /\ UNCHANGED aux
    \/ CapturePush /\ UNCHANGED aux
    \/ CaptureNext /\ UNCHANGED aux
    \/ CaptureEnd /\ UNCHANGED aux

NextLoop ==
    \/ \E cmd \in LoopCommands : Send(cmd)
    \/ DropSender
    \/ ActorStep
    \/ CaptureBegin(Silence) /\ UNCHANGED aux
    \/ CaptureRun
    \/ \E n \in RenderNames : OutputBegin(n) /\ UNCHANGED aux
    \/ \E n \in RenderNames : OutputSlot(n) /\ UNCHANGED aux

ThreadFairness ==
    /\ SF_vars(ActorStep)
    /\ WF_vars(CaptureRun)
    /\ \A n \in RenderNames : WF_vars(OutputSlot(n) /\ UNCHANGED aux)

SpecLoop == Init /\ [][NextLoop]_vars /\ ThreadFairness

(***************************************************************************)
(* SpecLocks: every lock() of the three kinds of thread as a step of its   *)
(* own.  The actor takes one command after the other; the capture callback *)
(* and the output callback of a route are invoked at any moment.  A thread *)
(* that has started a handler or an invocation keeps being scheduled, and  *)
(* a lock that is free again and again is eventually granted.              *)
(***************************************************************************)
LockCommands ==
    {Command("StartLoopback", "", 0, FALSE), Command("StopLoopback", "", 0, FALSE),
     Command("SetInputVolume", "", 2, FALSE), Command("SetInputMute", "", 0, TRUE)}
    \cup {Command("AddOutput", n, 0, FALSE) : n \in RenderNames}
    \cup {Command("RemoveOutput", n, 0, FALSE) : n \in RenderNames}
    \cup {Command("SetVolume", n, 2, FALSE) : n \in RenderNames}
    \cup {Command("SetMute", n, 0, TRUE) : n \in RenderNames}

\* audio.rs:55-122 with the device found, configured and its stream built
LockStart ==
    /\ actor.pc = "handle" /\ actor.op = "StartLoopback"
    /\ StartLoopback(TRUE, TRUE, FallbackRate, TRUE)
    /\ Return

\* a step of a handler the actor has started
HandlerStep ==
    \/ LockStart
    \/ HandleStop
    \/ SetLock
    \/ SetStore
    \/ SetUnknown
    \/ \E found \in BOOLEAN : AddResolve(found)
    \/ AddLock
    \/ AddRegister
    \/ AddVolume
    \/ AddMute
    \/ AddBuild(Multi, TRUE)
    \/ RemoveBegin
    \/ RemoveStream
    \/ RemoveLock
    \/ RemoveRetain
    \/ RemoveVolume
    \/ RemoveMute

\* a step of a capture callback invocation that has started
CaptureStep ==
    \/ CaptureLockVol
    \/ CaptureGain
    \/ CaptureLock /\ UNCHANGED aux
    \/ CaptureFill

\* a step of an invocation of n's output callback that has started
OutputStep(n) ==
    \/ OutputLockVol(n)
    \/ OutputGain(n)
    \/ OutputFill(n)

NextLocks ==
    \/ \E cmd \in LockCommands : Take(cmd)
    \/ HandlerStep
    \/ CaptureLockMute(Silence)
    \/ CaptureStep
    \/ \E n \in RenderNames : OutputLockMute(n)
    \/ \E n \in RenderNames : OutputStep(n)

LockFairness ==
    /\ SF_vars(HandlerStep)
    /\ SF_vars(CaptureStep)
    /\ \A n \in RenderNames : SF_vars(OutputStep(n))

SpecLocks == Init /\ [][NextLocks]_vars /\ LockFairness

(***************************************************************************)
(* SpecGate: a route's volume raised, the route muted and the input muted  *)
(* at any moment, between any two samples of a running capture callback    *)
(* and any two slots of a running output callback.                         *)
(***************************************************************************)
NextGate ==
    \/ StartLoopback(TRUE, TRUE, FallbackRate, TRUE) /\ UNCHANGED aux
    \/ \E n \in RenderNames : AddOutput(n, Multi, TRUE, TRUE) /\ UNCHANGED aux
    \/ \E n \in RenderNames : SetVolume(n, 2) /\ UNCHANGED aux
    \/ \E n \in RenderNames : SetMute(n, TRUE) /\ UNCHANGED aux
    \/ SetInputMute(TRUE) /\ UNCHANGED aux
    \/ CaptureBegin(Flat) /\ UNCHANGED aux
    \/ CaptureLock /\ UNCHANGED aux
    \/ CapturePush /\ UNCHANGED aux
    \/ CaptureNext /\ UNCHANGED aux
    \/ CaptureEnd /\ UNCHANGED aux
    \/ \E n \in RenderNames : OutputBegin(n) /\ UNCHANGED aux
    \/ \E n \in RenderNames : OutputSlot(n) /\ UNCHANGED aux

SpecGate == Init /\ [][NextGate]_vars

(***************************************************************************)
(* SpecFifo: the transfer channels under any interleaving of the capture   *)
(* callback (sample by sample) and the output callbacks (slot by slot),    *)
(* with routes added (the stream built or not) and removed.  hist[n] is    *)
(* the record of route n's channel: the values the capture callback's      *)
(* push accepted and the values the output callback's pop returned.        *)
(***************************************************************************)

\* audio.rs:102-104: the push of the current sample, recorded when the
\* ring of a route took it
FifoPush ==
    /\ CapturePush
    /\ hist' = LET e == producers[cap.p] IN
               IF e.consumer /\ ~RbIsFull(e.q)
               THEN [hist EXCEPT ![e.name].pushed =
                                      Append(@, Mul(cap.data[cap.k], cap.vol))]
               ELSE hist
    /\ UNCHANGED loop

\* audio.rs:235: the pop of one slot, recorded when it returned a sample
FifoPop(n) ==
    /\ OutputSlot(n)
    /\ hist' = LET q == producers[ConsumerIdx(n)].q IN
               IF q # <<>>
               THEN [hist EXCEPT ![n].popped = Append(@, RbPopValue(q))]
               ELSE hist
    /\ UNCHANGED loop

\* audio.rs:252-267: the route's channel is gone, and its record with it
FifoRemove(n) ==
    /\ RemoveOutput(n)
    /\ hist' = [hist EXCEPT ![n] = FreshHist]
    /\ UNCHANGED loop

\* audio.rs:91: the host hands the capture callback a block
FifoBegin ==
    /\ \A n \in Names : Len(hist[n].pushed) < MaxHist
    /\ CaptureBegin(Ramp)
    /\ UNCHANGED aux

NextFifo ==
    \/ StartLoopback(TRUE, TRUE, FallbackRate, TRUE) /\ UNCHANGED aux
    \/ \E n \in RenderNames, build_ok \in BOOLEAN :
           AddOutput(n, Multi, TRUE, build_ok) /\ UNCHANGED aux
    \/ \E n \in RenderNames : FifoRemove(n)
    \/ FifoBegin
    \/ CaptureLock /\ UNCHANGED aux
    \/ FifoPush
    \/ CaptureNext /\ UNCHANGED aux
    \/ CaptureEnd /\ UNCHANGED aux
    \/ \E n \in RenderNames : OutputBegin(n) /\ UNCHANGED aux
    \/ \E n \in RenderNames : FifoPop(n)

SpecFifo == Init /\ [][NextFifo]_vars

(***************************************************************************)
(* Claims about the output callback, under SpecRender.                     *)
(***************************************************************************)

\* a step of route n's output callback that renders one slot
SlotStep(n) == ocb[n].pc = "run" /\ ocb'[n] # ocb[n]

\* the ring route n's callback pops from, and what the pop yields
RingOf(n) == producers[ConsumerIdx(n)].q
Popped(n) == IF RingOf(n) = <<>> THEN 0 ELSE Head(RingOf(n))

\* C1: every slot an output callback renders holds 0 if the route's mute cell
\* was true when the invocation read it, whatever the volume cell held, and
\* otherwise the popped value (0 on an empty ring) times the volume cell's
\* value.
C1_RenderedSample ==
    [][\A n \in Names :
        SlotStep(n) =>
            outbuf'[n][ocb[n].i] =
                IF oc_obs[n].mute THEN 0 ELSE Popped(n) * oc_obs[n].volume]_vars

\* A muted invocation with volume 2 has popped a sample and rendered 0 into
\* slot 1, while slot 2 still holds 4, rendered unmuted at volume 2.
C1_Witness ==
    \E n \in Names :
        /\ ocb[n].pc = "run" /\ ocb[n].i = 2
        /\ oc_obs[n].mute /\ oc_obs[n].volume = 2 /\ oc_obs[n].got = 1
        /\ outbuf[n][1] = 0 /\ outbuf[n][2] = 4

\* C2: every slot rendered by an invocation that starts after SetMute(X, true)
\* was applied to the route holds 0, whatever SetVolume commands were applied
\* since; once SetMute(X, false) was applied it holds the popped value times
\* the value of the last SetVolume(X, .) applied to the route, muted or not,
\* or times 1 if there was none.
C2_MuteOverridesVolume ==
    [][\A n \in Names :
        SlotStep(n) =>
            outbuf'[n][ocb[n].i] =
                IF oc_obs[n].req.mute THEN 0 ELSE Popped(n) * oc_obs[n].req.vol]_vars

\* An invocation that started after the route was unmuted, its volume having
\* been set to 2 while it was muted, has rendered the sample 1 as 2.
C2_Witness ==
    \E n \in Names :
        /\ ocb[n].pc = "run" /\ ocb[n].i = 2 /\ oc_obs[n].got = 1
        /\ oc_obs[n].req = [mute |-> FALSE, vol |-> 2, quiet |-> TRUE]
        /\ outbuf[n][1] = 2

\* C3: a slot rendered while the ring is empty holds exactly 0 afterwards,
\* not the value an earlier invocation left in it.
C3_UnderrunIsSilence ==
    [][\A n \in Names :
        (SlotStep(n) /\ RingOf(n) = <<>>) => outbuf'[n][ocb[n].i] = 0]_vars

\* An invocation found the ring empty at slot 1 and rendered 0 there, in a
\* buffer whose slot 2 still holds a sample an earlier invocation rendered.
C3_Witness ==
    \E n \in Names :
        /\ ocb[n].pc = "run" /\ ocb[n].i = 2 /\ oc_obs[n].got = 0
        /\ ~oc_obs[n].mute
        /\ outbuf[n][1] = 0 /\ outbuf[n][2] > 0

(***************************************************************************)
(* Claims about the capture callback, under SpecFanout.                    *)
(***************************************************************************)

\* the capture callback has offered the whole block to its current producer
LoopDone == cap.pc = "push" /\ cap.p <= Len(producers) /\ cap.k > BlockLen

\* a step of the capture callback that offers one sample to its current producer
PushStep == cap.pc = "push" /\ cap'.pc = "push" /\ cap'.p = cap.p /\ cap'.k = cap.k + 1

\* a step of the capture callback that reads the input gain
GainStep == cap.pc = "idle" /\ cap'.pc = "gain"

\* the leading m samples of the block, each times the callback's gain
Leading(m) == [j \in 1..m |-> cap.data[j] * cap.vol]

MinOf(a, b) == IF a <= b THEN a ELSE b

\* C4 as stated: whenever the capture callback has offered a block of N
\* samples to a registered channel, the channel has received exactly the
\* leading min(N, free slots) samples of the block, in order, each times the
\* gain, the free slots being those the channel had when its turn began.
C4_Original ==
    LoopDone => cap_obs.recv = Leading(MinOf(BlockLen, cap_obs.free0))

\* C4 as amended: the gain of an invocation is 0 if the input is muted and
\* the input volume otherwise; each sample of the block is appended, times
\* that gain, to the current channel unless that channel is full at that
\* moment, and no other channel changes; and a channel whose consumer popped
\* nothing during its turn has received exactly the leading min(N, free
\* slots) samples.
C4_FanOut ==
    /\ [][GainStep => cap'.vol = IF input_muted THEN 0 ELSE input_volume]_vars
    /\ [][PushStep =>
            LET q == producers[cap.p].q IN
            producers' =
                [producers EXCEPT ![cap.p].q =
                    IF Len(q) < Capacity
                    THEN Append(q, cap.data[cap.k] * cap.vol) ELSE q]]_vars
    /\ [](LoopDone /\ ~cap_obs.popped =>
            cap_obs.recv = Leading(MinOf(BlockLen, cap_obs.free0)))

\* With two channels registered, the second had one free slot when its turn
\* began and has received only the first sample of the block, at gain 2,
\* while the first channel holds two samples.
C4_Witness ==
    /\ LoopDone /\ Len(producers) = 2 /\ cap.p = 2
    /\ cap.vol = 2 /\ cap_obs.free0 = 1 /\ ~cap_obs.popped
    /\ cap_obs.recv = <<2>>
    /\ Len(producers[1].q) = 2

(***************************************************************************)
(* Claims about the registries and the control cells, under SpecRegistry.  *)
(***************************************************************************)

\* the last two commands were AddOutput and then RemoveOutput of one name
AddThenRemove == last.op = "RemoveOutput" /\ last.after # ""

\* a registry without the entries of one name
Without(ps, name) == SelectSeq(ps, LAMBDA e : e.name # name)

\* C5 as stated: AddOutput(name) and then RemoveOutput(name), from any state
\* and for any name, leave the stream names and the producer registry as
\* they were before the AddOutput.
C5_Original ==
    AddThenRemove =>
        /\ DOMAIN output_streams = last.streams
        /\ producers = last.prods

\* C5 as amended: for a name that had no output stream, AddOutput(name) and
\* then RemoveOutput(name) leave the stream names as they were, and the
\* producer registry as it was less the entries registered under that name.
C5_AddThenRemove ==
    (AddThenRemove /\ last.name \notin last.streams) =>
        /\ DOMAIN output_streams = last.streams
        /\ producers = Without(last.prods, last.name)

\* An output was added next to the route of the other name, its stream was
\* built, and it was removed again.
C5_Witness ==
    /\ AddThenRemove /\ last.after = "built"
    /\ Len(last.prods) = 1 /\ last.prods[1].name # last.name
    /\ last.streams = {last.prods[1].name}

\* C6: AddOutput of a name that has an output stream changes neither the
\* producer registry, nor the stream map, nor any volume or mute cell.
C6_AddPresentIsNoOp ==
    [][(last'.op = "AddOutput" /\ last'.name \in DOMAIN output_streams) =>
            UNCHANGED <<producers, output_streams, volumes, mutes>>]_vars

\* AddOutput was applied to a present name whose volume is 2 and which is
\* muted; the registry still holds that one producer.
C6_Witness ==
    /\ last.op = "AddOutput" /\ last.res = "exists"
    /\ last.name \in DOMAIN output_streams
    /\ volumes[last.name] = 2 /\ mutes[last.name]
    /\ Len(producers) = 1

\* C7 as stated: SetVolume and SetMute of a name that has no route (it was
\* never added, or was removed) change no part of the engine state.
C7_Original ==
    [][(last'.op \in {"SetVolume", "SetMute"}
            /\ last'.name \notin DOMAIN output_streams) =>
            UNCHANGED engine]_vars

\* C8 as stated: an AddOutput whose device resolves but whose stream cannot
\* be built leaves the producer registry, the volume map, the mute map and
\* the stream map as they were.
C8_Original ==
    [][(last'.op = "AddOutput" /\ last'.res = "buildfail") =>
            UNCHANGED <<producers, volumes, mutes, output_streams>>]_vars

\* the number of entries the registry holds under a name
Entries(ps, n) == Len(SelectSeq(ps, LAMBDA e : e.name = n))

\* C17: whenever a command has completed, the producer registry holds exactly
\* one producer for each name that has an output stream and none for any
\* other name, and the volume map and the mute map have the keys of the
\* stream map.
C17_Original ==
    last.op # "none" =>
        /\ \A n \in DOMAIN output_streams : Entries(producers, n) = 1
        /\ \A n \in Names \ DOMAIN output_streams : Entries(producers, n) = 0
        /\ DOMAIN volumes = DOMAIN output_streams
        /\ DOMAIN mutes = DOMAIN output_streams

(***************************************************************************)
(* Claims about stopped capture, under SpecDrain.                          *)
(***************************************************************************)

\* every ring of the registry is empty
AllEmpty == \A i \in 1..Len(producers) : producers[i].q = <<>>

\* the number of samples held by the rings of a registry
RECURSIVE Held(_)
Held(ps) == IF ps = <<>> THEN 0 ELSE Len(Head(ps).q) + Held(Tail(ps))

\* no ring of the registry gains a sample in the step (a step pushes into
\* one ring or pops from one ring, never both)
NoPush == Held(producers') <= Held(producers)

\* C11 as stated: StopLoopback keeps every route's stream, producer
\* registration and control cells; while capture is stopped no sample is
\* pushed into any transfer channel; and if capture stays stopped, then
\* with the output callbacks scheduled fairly every transfer channel is
\* eventually empty for good, and a slot rendered from then on holds 0.
C11_Original ==
    /\ [][last'.op = "StopLoopback" =>
            UNCHANGED <<output_streams, producers, volumes, mutes>>]_vars
    /\ [][(~capture_stream /\ ~capture_stream') => NoPush]_vars
    /\ (<>[](~capture_stream)) => <>[]AllEmpty
    /\ [][\A n \in Names :
            (AllEmpty /\ SlotStep(n)) => outbuf'[n][ocb[n].i] = 0]_vars

(***************************************************************************)
(* Claims about the order of teardown, under SpecTeardown.                 *)
(***************************************************************************)

\* the registry holds a producer of the name whose consumer end is alive
Registered(ps, n) == \E i \in 1..Len(ps) : ps[i].name = n /\ ps[i].consumer

\* the registry holds an entry of the name
Listed(ps, n) == \E i \in 1..Len(ps) : ps[i].name = n

\* C12: in every state, between the statements of add_output and
\* remove_output too, a name whose output stream is alive or whose output
\* callback is running has its producer registration, its volume cell and
\* its mute cell; and remove_output drops the stream first, then the
\* registration, then the cells: a registration goes only when the name has
\* no stream, and a cell goes only when the name has no stream and no
\* registration.
C12_TeardownOrder ==
    /\ [](\A n \in Names :
            (n \in DOMAIN output_streams \/ ocb[n].pc # "idle") =>
                /\ Registered(producers, n)
                /\ n \in DOMAIN volumes
                /\ n \in DOMAIN mutes)
    /\ [][\A n \in Names :
            (Listed(producers, n) /\ ~Listed(producers', n)) =>
                n \notin DOMAIN output_streams]_vars
    /\ [][\A n \in Names :
            \/ (n \in DOMAIN volumes /\ n \notin DOMAIN volumes')
            \/ (n \in DOMAIN mutes /\ n \notin DOMAIN mutes')
            => (n \notin DOMAIN output_streams /\ ~Listed(producers, n))]_vars

\* remove_output has dropped the stream of a route and not yet its
\* registration or its cells, while the output callback of the other route
\* is running.
C12_Witness ==
    /\ actor.pc = "rm" /\ actor.k = 2
    /\ actor.name \notin DOMAIN output_streams
    /\ Registered(producers, actor.name)
    /\ actor.name \in DOMAIN volumes
    /\ \E m \in DOMAIN output_streams : ocb[m].pc = "run" /\ ocb[m].i = 2

(***************************************************************************)
(* Claims about failed cell locks, under SpecPoison.                       *)
(***************************************************************************)

\* C13 as stated: an invocation of the capture callback or of an output
\* callback that failed to lock its mute cell or its volume cell uses the
\* gain 0.
C13_Original ==
    /\ (cap.pc # "idle" /\ (~cap.mute_ok \/ ~cap.vol_ok)) => cap.vol = 0
    /\ \A n \in Names :
           (ocb[n].pc = "run" /\ (~ocb[n].mute_ok \/ ~ocb[n].vol_ok)) =>
               ocb[n].vol = 0

(***************************************************************************)
(* Claims about the command channel, under SpecChannel.                    *)
(***************************************************************************)

\* the streams, the names of the registry and the keys of the control maps
Structure ==
    <<capture_stream, DOMAIN output_streams, ProducerNames, DOMAIN volumes,
      DOMAIN mutes>>

\* the command the actor received last
Current == applied[Len(applied)]

\* C14: the commands the actor has received are the commands enqueued, in
\* the order of enqueueing, and those still in the channel are the rest; the
\* actor receives a command only when the handler of the one before has
\* returned; and every step that changes the stream set, the registry's
\* names or the keys of a control map is a step of the handler of the
\* command received last.
C14_Sequential ==
    /\ [](/\ Len(applied) <= Len(sent)
          /\ applied = SubSeq(sent, 1, Len(applied))
          /\ rx = SubSeq(sent, Len(applied) + 1, Len(sent)))
    /\ [][applied' # applied => (actor.pc = "idle" /\ actor'.pc = "handle")]_vars
    /\ [][Structure' # Structure =>
            /\ actor.pc \notin {"idle", "done"}
            /\ applied' = applied
            /\ actor.op = Current.op /\ actor.name = Current.name]_vars

\* Three commands were enqueued, RemoveOutput behind AddOutput; the actor is
\* inside add_output, between registering the producer and building the
\* stream, and the other two wait in the channel.
C14_Witness ==
    /\ Len(sent) = 3 /\ Len(rx) = 2 /\ Len(applied) = 1
    /\ actor.op = "AddOutput" /\ actor.pc = "add_build"
    /\ rx[1].op = "RemoveOutput" /\ rx[2].op = "StopLoopback"

(***************************************************************************)
(* Claims about the end of the actor loop, under SpecLoop.                 *)
(***************************************************************************)

\* the handler of the k-th command enqueued has returned
Handled(k) ==
    /\ Len(applied) >= k
    /\ (Len(applied) > k \/ actor.pc \in {"idle", "done"})

\* C15: the loop has ended only if every sender is dropped and the channel
\* is empty, every command enqueued having been handled; it ends in no
\* other step than the receive that finds the channel closed and empty,
\* whatever the outcomes of the handlers were; and with the threads
\* scheduled fairly every command enqueued is eventually handled.
C15_Termination ==
    /\ [](actor.pc = "done" =>
            (tx = 0 /\ rx = <<>> /\ applied = sent))
    /\ [][(actor.pc # "done" /\ actor'.pc = "done") =>
            (actor.pc = "idle" /\ tx = 0 /\ rx = <<>>)]_vars
    /\ \A k \in 1..MaxSent : (Len(sent) >= k) ~> Handled(k)

\* The loop has ended after it handled three commands, among them an
\* add_output whose stream could not be built (its registration is still in
\* the registry) and a remove_output of a name that has no stream.
C15_Witness ==
    /\ actor.pc = "done"
    /\ Len(applied) = 3
    /\ applied[1].op = "AddOutput" /\ applied[2].op = "RemoveOutput"
    /\ applied[3].op = "AddOutput"
    /\ \E n \in RenderNames : Listed(producers, n) /\ n \notin DOMAIN output_streams

(***************************************************************************)
(* Claims about the registry lock, under SpecLoop.                         *)
(***************************************************************************)

\* the actor is between the lock() and the end of the block of audio.rs:209-211
\* or of audio.rs:259-261
InMutation == actor.pc \in {"add_locked", "rm_locked"}

\* the capture callback is inside `for (_name, producer) in producers.iter_mut()`
InIteration == cap.pc = "push"

\* the capture callback is inside `for &sample in data` for one producer
InSampleLoop == cap.pc = "push" /\ cap.p <= Len(producers) /\ cap.k <= BlockLen

\* the actor never mutates the registry while the capture callback iterates it
MutationExcluded == ~(InMutation /\ InIteration)

\* C16: the actor's mutation of the producer registry and the capture
\* callback's iteration of it never overlap, and the capture callback does not
\* hold the registry lock while it runs its per-sample push loop.
C16_Original ==
    /\ MutationExcluded
    /\ ~(InSampleLoop /\ RegistryHolder = "capture")

(***************************************************************************)
(* Claims about the transfer channels, under SpecFifo.                     *)
(***************************************************************************)

\* C18: no ring ever holds more than Capacity samples, and for every route
\* the values its output callback popped, followed by the values still in
\* its ring, are exactly the values the capture callback's pushes were
\* accepted with, in push order: every popped value is a pushed one, popped
\* once, unchanged and in order, however the two callbacks interleave.
C18_BoundedFifo ==
    /\ \A i \in 1..Len(producers) : Len(producers[i].q) <= Capacity
    /\ \A n \in DOMAIN output_streams :
           hist[n].pushed = hist[n].popped \o producers[ConsumerIdx(n)].q

\* Both callbacks of a route are in the middle of an invocation; the ring
\* is full, a sample has been popped from it and a push has been dropped.
C18_Witness ==
    \E n \in DOMAIN output_streams :
        /\ cap.pc = "push" /\ cap.k = 2
        /\ ocb[n].pc = "run" /\ ocb[n].i = 2
        /\ RbIsFull(producers[ConsumerIdx(n)].q)
        /\ Len(hist[n].popped) >= 1
        /\ hist[n].pushed = <<1, 2, 1>>

(***************************************************************************)
(* Claims about the locks, under SpecLocks.                                *)
(***************************************************************************)

\* the capture callback is at a lock() whose lock another thread holds
CaptureWaits ==
    \/ cap.pc = "mute" /\ ~input_muted /\ ~CellFree("input_volume", "")
    \/ cap.pc = "gain" /\ ~RegistryFree

\* the output callback of n is at a lock() whose lock another thread holds
OutputWaits(n) ==
    ocb[n].pc = "mute" /\ ~mutes[n] /\ ~CellFree("volumes", n)

\* the actor is at a lock() whose lock another thread holds, or at the drop
\* of a stream whose callback is running
ActorWaits ==
    \/ /\ actor.pc \in {"handle", "cells"} /\ actor.op \in SetOps
       /\ CellKnown
       /\ actor.k < Len(SetLocks(actor.op))
       /\ ~CellFree(SetLocks(actor.op)[actor.k + 1], actor.name)
    \/ actor.pc = "add_ring" /\ ~RegistryFree
    \/ actor.pc = "rm" /\ RemoveOrder[actor.k] = "registry" /\ ~RegistryFree
    \/ actor.pc = "rm" /\ RemoveOrder[actor.k] = "stream"
           /\ ocb[actor.name].pc # "idle"
    \/ actor.pc = "handle" /\ actor.op = "StopLoopback" /\ cap.pc # "idle"

\* C19: the locks are held only by the callbacks (whose waits are for the
\* actor) and by the actor (whose waits are for a callback), so a deadlock
\* is a state in which the actor waits and a callback waits; there is none,
\* and every started capture invocation, output invocation and command
\* handler completes.
C19_DeadlockFree ==
    /\ [](~(ActorWaits /\ (CaptureWaits \/ \E n \in Names : OutputWaits(n))))
    /\ (cap.pc # "idle") ~> (cap.pc = "idle")
    /\ \A n \in RenderNames : (ocb[n].pc # "idle") ~> (ocb[n].pc = "idle")
    /\ (actor.pc # "idle") ~> (actor.pc = "idle")

\* The capture callback holds the input mute cell and waits for the input
\* volume cell, which the actor holds in set_input_volume, while an output
\* callback holds both cells of its route.
C19_Witness ==
    /\ cap.pc = "mute" /\ CaptureWaits
    /\ actor.pc = "cells" /\ actor.op = "SetInputVolume"
    /\ \E n \in DOMAIN output_streams : ocb[n].pc = "vol"

(***************************************************************************)
(* Claims about when mute and volume are read, under SpecGate.             *)
(***************************************************************************)

\* the gain of the cells as the running invocation of n found them
GainAtStart(n) == IF oc_obs[n].mute THEN 0 ELSE oc_obs[n].volume

\* C20: a slot step of an output callback pops its ring whether the route is
\* muted or not and writes the popped value times the gain the cells had
\* when the invocation began, and that gain stays with the invocation
\* whatever is set while it runs; a capture callback binds its gain from the
\* cells when it begins, keeps it to its return and offers every sample
\* times that gain (zero when muted) to the producer, whose ring takes it
\* unless full.
C20_ReadOnce ==
    /\ [][\A n \in RenderNames :
             SlotStep(n) =>
                /\ Len(producers'[ConsumerIdx(n)].q) =
                       IF RingOf(n) = <<>> THEN 0 ELSE Len(RingOf(n)) - 1
                /\ outbuf'[n][ocb[n].i] = Mul(Popped(n), GainAtStart(n))]_vars
    /\ [][\A n \in RenderNames :
             (ocb[n].pc = "run" /\ ocb'[n].pc = "run") =>
                ocb'[n].vol = ocb[n].vol]_vars
    /\ [][GainStep => cap'.vol = IF input_muted THEN 0 ELSE input_volume]_vars
    /\ [][(cap.pc # "idle" /\ cap'.pc # "idle") => cap'.vol = cap.vol]_vars
    /\ [][PushStep =>
             LET q == producers[cap.p].q IN
             producers'[cap.p].q =
                IF RbIsFull(q) THEN q
                ELSE Append(q, Mul(cap.data[cap.k], cap.vol))]_vars

\* An output callback that began muted has popped a sample for its first
\* slot and written silence, and the route's volume was set to 2 before its
\* second slot; the capture callback, begun with the input muted, has pushed
\* a zero behind the sample an earlier invocation left in the ring.
C20_Witness ==
    \E n \in DOMAIN output_streams :
        /\ ocb[n].pc = "run" /\ ocb[n].i = 2
        /\ oc_obs[n].mute /\ oc_obs[n].got = 1 /\ outbuf[n][1] = 0
        /\ oc_obs[n].volume = 1 /\ volumes[n] = 2
        /\ cap.pc = "push" /\ cap.k = 2 /\ cap.vol = 0
        /\ RingOf(n) = <<1, 0>>

(***************************************************************************)
(* Claims about sample-rate negotiation, under SpecRates.                  *)
(***************************************************************************)

\* the last command was an AddOutput that went on to negotiate a configuration
Negotiated == last.op = "AddOutput" /\ last.res \in {"built", "buildfail"}

\* C9 as stated: the target rate of an AddOutput is the capture session's
\* rate if a capture session is active and 48000 otherwise.
C9_Original ==
    Negotiated =>
        last.target = IF capture_stream THEN capture_sample_rate ELSE 48000

\* the ranges the device reports, and the indices of those containing rate t
Reported(d) == IF d.cfgs_ok THEN d.ranges ELSE <<>>
Containing(d, t) ==
    {i \in 1..Len(Reported(d)) : Reported(d)[i].min <= t /\ t <= Reported(d)[i].max}
FirstOf(S) == CHOOSE i \in S : \A j \in S : i <= j

\* C10 as stated: the stream of an added output is configured with the first
\* reported range that contains the target, at exactly the target rate, and
\* with the device's default configuration if no range contains it.
C10_Original ==
    (Negotiated /\ last.res = "built") =>
        LET hits == Containing(last.dev, last.target) IN
        output_streams[last.name] =
            IF hits # {}
            THEN [rate |-> last.target,
                  channels |-> Reported(last.dev)[FirstOf(hits)].channels]
            ELSE last.dev.def

\* C10 as amended: as stated, but where no range contains the target the
\* configuration is the device's default if the device reports one, and
\* 2 channels at 44100 Hz if it does not.
C10_Negotiation ==
    (Negotiated /\ last.res = "built") =>
        LET hits == Containing(last.dev, last.target) IN
        output_streams[last.name] =
            IF hits # {}
            THEN [rate |-> last.target,
                  channels |-> Reported(last.dev)[FirstOf(hits)].channels]
            ELSE IF last.dev.def_ok THEN last.dev.def
                 ELSE [rate |-> 44100, channels |-> 2]

\* An output was added on the device that reports no default and no range
\* with the target, and got 2 channels at 44100 Hz, next to an output that
\* got the first of two ranges containing the target 48000.
C10_Witness ==
    /\ Negotiated /\ last.res = "built" /\ last.dev = Broken
    /\ output_streams[last.name] = [rate |-> 44100, channels |-> 2]
    /\ \E m \in DOMAIN output_streams :
           output_streams[m] = [rate |-> 48000, channels |-> 6]

====
